---- MODULE Spec2Model ----
(***************************************************************************)
(* Recommendation synthesis pipeline of the restaurant recommendation      *)
(* backend: the response parser (GptService.processModelResponse), the     *)
(* record reconciler (MapsService.enhanceRecommendationsWithRealData) and  *)
(* the query extractor (PromptService.extractQueryComponents).             *)
(*                                                                         *)
(* A JavaScript string is a sequence of one-character strings.  The two    *)
(* star glyphs U+2605 and U+2606 are written "STAR" and "ESTAR".           *)
(* A JavaScript value that may be null or undefined is a tagged record.    *)
(***************************************************************************)
EXTENDS Integers, Sequences, FiniteSets, TLC

----------------------------------------------------------------------------
(* JavaScript values *)

Null == [type |-> "null"]

Undefined == [type |-> "undefined"]

Str(s) == [type |-> "string", value |-> s]

Num(n) == [type |-> "number", value |-> n]

Arr(a) == [type |-> "array", value |-> a]

\* ToBoolean of a tagged value, as used by ||, ! and if
Truthy(v) ==
    CASE v.type = "null" -> FALSE
      [] v.type = "undefined" -> FALSE
      [] v.type = "number" -> v.value # 0
      [] v.type = "string" -> Len(v.value) > 0
      [] OTHER -> TRUE

\* obj.key of an object literal: undefined when the key is not there
Get(obj, key) ==
    IF key \in DOMAIN obj THEN obj[key] ELSE Undefined

Min(S) == CHOOSE x \in S : \A y \in S : x <= y

Max(S) == CHOOSE x \in S : \A y \in S : x >= y

----------------------------------------------------------------------------
(* Characters and the String.prototype methods the code calls *)

FilledStar == "STAR"

EmptyStar == "ESTAR"

NL == "\n"

UpperCase ==
    <<"A", "B", "C", "D", "E", "F", "G", "H", "I", "J", "K", "L", "M",
      "N", "O", "P", "Q", "R", "S", "T", "U", "V", "W", "X", "Y", "Z">>

LowerCase ==
    <<"a", "b", "c", "d", "e", "f", "g", "h", "i", "j", "k", "l", "m",
      "n", "o", "p", "q", "r", "s", "t", "u", "v", "w", "x", "y", "z">>

DigitChars == <<"0", "1", "2", "3", "4", "5", "6", "7", "8", "9">>

Digits == {DigitChars[i] : i \in 1..10}

\* the characters matched by \s and removed by trim()
Whitespace == {" ", "\n", "\t", "\r"}

LowerChar(c) ==
    IF \E i \in 1..26 : UpperCase[i] = c
    THEN LowerCase[CHOOSE i \in 1..26 : UpperCase[i] = c]
    ELSE c

toLowerCase(s) == [i \in 1..Len(s) |-> LowerChar(s[i])]

\* s.substring from index i to index j, both inclusive and 1-based
Sub(s, i, j) == IF i > j THEN <<>> ELSE SubSeq(s, i, j)

trim(s) ==
    LET keep == {i \in 1..Len(s) : s[i] \notin Whitespace}
    IN  IF keep = {} THEN <<>> ELSE Sub(s, Min(keep), Max(keep))

\* t occurs in s at index i
StartsAt(s, t, i) ==
    /\ i >= 1
    /\ i + Len(t) - 1 <= Len(s)
    /\ \A k \in 1..Len(t) : s[i + k - 1] = t[k]

\* t occurs in s at index i, letter case ignored (the i flag)
StartsAtIgnoreCase(s, t, i) ==
    /\ i >= 1
    /\ i + Len(t) - 1 <= Len(s)
    /\ \A k \in 1..Len(t) : LowerChar(s[i + k - 1]) = LowerChar(t[k])

\* index of the first occurrence of t in s at or after from, 0 when none
indexOf(s, t, from) ==
    LET at == {i \in from..(Len(s) - Len(t) + 1) : StartsAt(s, t, i)}
    IN  IF at = {} THEN 0 ELSE Min(at)

\* includes that finds no occurrence of the empty string
includesNonEmpty(s, t) == Len(t) > 0 /\ indexOf(s, t, 1) # 0

\* String.prototype.includes: the empty string occurs in every string
includes(s, t) == indexOf(s, t, 1) # 0

RECURSIVE split(_, _)
\* s.split(sep) for a non-empty separator string
split(s, sep) ==
    LET i == indexOf(s, sep, 1)
    IN  IF i = 0
        THEN <<s>>
        ELSE <<Sub(s, 1, i - 1)>> \o split(Sub(s, i + Len(sep), Len(s)), sep)

\* index of the first character at or after i that is not in set
\* (Len(s) + 1 when the run reaches the end of s)
RunEnd(s, i, set) ==
    Min({j \in i..Len(s) : s[j] \notin set} \cup {Len(s) + 1})

\* index of the first character at or after i that is in set
StopAt(s, i, set) ==
    Min({j \in i..Len(s) : s[j] \in set} \cup {Len(s) + 1})

RECURSIVE NumToStr(_)
\* template-literal rendering of a non-negative integer
NumToStr(n) ==
    IF n < 10 THEN <<DigitChars[n + 1]>>
    ELSE NumToStr(n \div 10) \o <<DigitChars[(n % 10) + 1]>>

----------------------------------------------------------------------------
(* String literals of gptj.service.js *)

LabelPlace ==
    <<"P", "L", "A", "C", "E", ":">>

LabelLocation ==
    <<"L", "O", "C", "A", "T", "I", "O", "N", ":">>

LabelDescription ==
    <<"D", "E", "S", "C", "R", "I", "P", "T", "I", "O", "N", ":">>

LabelFeatures ==
    <<"F", "E", "A", "T", "U", "R", "E", "S", ":">>

LabelInfo ==
    <<"I", "N", "F", "O", ":">>

RecommendationWord ==
    <<"R", "e", "c", "o", "m", "m", "e", "n", "d", "a", "t", "i", "o", "n">>

BlockMarker ==
    <<"-", "-", "-">>

ParagraphBreak ==
    <<"\n", "\n">>

UnknownPlace ==
    <<"U", "n", "k", "n", "o", "w", "n", " ", "P", "l", "a", "c", "e">>

NotSpecified ==
    <<"N", "o", "t", " ", "s", "p", "e", "c", "i", "f", "i", "e", "d">>

DescPrefix ==
    <<"R", "e", "c", "o", "m", "m", "e", "n", "d", "a", "t", "i", "o", "n",
      " ", "b", "a", "s", "e", "d", " ", "o", "n", " ", "y", "o", "u", "r",
      " ", "r", "e", "q", "u", "e", "s", "t", " ", "f", "o", "r", " ", "\"">>

InfoNumPrefix ==
    <<"F", "r", "o", "m", " ", "m", "o", "d", "e", "l", "'", "s", " ", "r",
      "e", "c", "o", "m", "m", "e", "n", "d", "a", "t", "i", "o", "n", " ",
      "#">>

RecommendationSp ==
    <<"R", "e", "c", "o", "m", "m", "e", "n", "d", "a", "t", "i", "o", "n",
      " ">>

BasedOnPrefix ==
    <<"B", "a", "s", "e", "d", " ", "o", "n", " ", "y", "o", "u", "r", " ",
      "r", "e", "q", "u", "e", "s", "t", " ", "f", "o", "r", " ", "\"">>

Quote == <<"\"">>

PlacesFor ==
    <<"P", "l", "a", "c", "e", "s", " ", "f", "o", "r", " ">>

BasedOnModel ==
    <<"B", "a", "s", "e", "d", " ", "o", "n", " ", "m", "o", "d", "e", "l",
      " ", "r", "e", "s", "p", "o", "n", "s", "e">>

\* default rating of a record whose PLACE line has no star run
DefaultRating == 4

\* paragraphs.slice(0, 3)
MaxParagraphs == 3

\* p.trim().length > 10
MinParagraphLen == 10

----------------------------------------------------------------------------
(* The response parser: GptService.processModelResponse *)

\* The regular expression  LABEL\s*([^stop]+)  tried at index p of block.
\* \s* is greedy and gives characters back until the group can take at
\* least one character; the group then runs to the next stop character.
\* groupAt = 0 when the expression does not match at p.
FieldMatchAt(block, label, stop, p) ==
    IF ~StartsAtIgnoreCase(block, label, p)
    THEN [groupAt |-> 0, groupEnd |-> 0]
    ELSE LET q == p + Len(label)
             w == RunEnd(block, q, Whitespace) - q
             K == {k \in 0..w : q + k <= Len(block) /\ block[q + k] \notin stop}
         IN  IF K = {}
             THEN [groupAt |-> 0, groupEnd |-> 0]
             ELSE [groupAt |-> q + Max(K),
                   groupEnd |-> StopAt(block, q + Max(K), stop) - 1]

\* block.match(/LABEL\s*([^stop]+)/i): the leftmost index where it matches
FieldMatch(block, label, stop) ==
    LET P == {p \in 1..Len(block) : FieldMatchAt(block, label, stop, p).groupAt # 0}
    IN  IF P = {}
        THEN [found |-> FALSE, group |-> <<>>, groupEnd |-> 0]
        ELSE LET m == FieldMatchAt(block, label, stop, Min(P))
             IN  [found |-> TRUE,
                  group |-> Sub(block, m.groupAt, m.groupEnd),
                  groupEnd |-> m.groupEnd]

\* block.match(/PLACE:\s*([^STAR\n]+)(STAR+ESTAR*)?/i); stars is the number
\* of filled stars of group 2, 0 when group 2 did not take part
placeLineMatch(block) ==
    LET m == FieldMatch(block, LabelPlace, {FilledStar, NL})
    IN  IF ~m.found
        THEN [found |-> FALSE, group |-> <<>>, stars |-> 0]
        ELSE [found |-> TRUE,
              group |-> m.group,
              stars |-> RunEnd(block, m.groupEnd + 1, {FilledStar})
                          - (m.groupEnd + 1)]

\* placeLine[1] ? placeLine[1].trim() : 'Unknown Place'
placeName(group) ==
    IF Len(group) > 0 THEN trim(group) ELSE UnknownPlace

\* placeRating without the default of 4
placeRatingNoDefault(stars) == stars

\* let rating = 4; if (placeLine[2]) rating = (stars.match(/STAR/g) || []).length
placeRating(stars) ==
    IF stars > 0 THEN stars ELSE DefaultRating

\* m ? m[1].trim() : ''   for LOCATION:, DESCRIPTION: and INFO:
fieldValue(block, label) ==
    LET m == FieldMatch(block, label, {NL})
    IN  IF m.found THEN trim(m.group) ELSE <<>>

\* featuresMatch ? featuresMatch[1].split(',').map(f => f.trim()) : []
featuresValue(block) ==
    LET m == FieldMatch(block, LabelFeatures, {NL})
    IN  IF ~m.found THEN <<>>
        ELSE LET parts == split(m.group, <<",">>)
             IN  [i \in 1..Len(parts) |-> trim(parts[i])]

\* the record pushed for one block that has a PLACE line
blockRecord(block) ==
    LET placeLine == placeLineMatch(block)
    IN  [name |-> placeName(placeLine.group),
         rating |-> placeRating(placeLine.stars),
         location |-> fieldValue(block, LabelLocation),
         description |-> fieldValue(block, LabelDescription),
         features |-> featuresValue(block),
         additionalInfo |-> fieldValue(block, LabelInfo)]

IsNonBlank(block) == Len(trim(block)) > 0

\* rawResponse.split('---').filter(block => block.trim().length > 0)
recBlocks(rawResponse) ==
    SelectSeq(split(rawResponse, BlockMarker), IsNonBlank)

HasPlaceLine(block) == placeLineMatch(block).found

\* the for loop over recBlocks: blocks with no PLACE line are skipped
grammarRecords(rawResponse) ==
    LET blocks == SelectSeq(recBlocks(rawResponse), HasPlaceLine)
    IN  [i \in 1..Len(blocks) |-> blockRecord(blocks[i])]

\* location || 'Not specified'
locationOrDefault(location) ==
    IF Truthy(location) THEN location.value ELSE NotSpecified

\* The body of numPattern, (?:Recommendation\s*)?(\d+)[:.]\s*([^\n]+),
\* tried at index b of text; ok = FALSE when it does not match there
numBodyAt(text, b) ==
    LET b1 == IF StartsAt(text, RecommendationWord, b)
              THEN RunEnd(text, b + Len(RecommendationWord), Whitespace)
              ELSE b
        d  == RunEnd(text, b1, Digits)
        q  == d + 1
        w  == RunEnd(text, q, Whitespace) - q
        K  == {k \in 0..w : q + k <= Len(text) /\ text[q + k] # NL}
    IN  IF /\ d > b1
           /\ d <= Len(text)
           /\ text[d] \in {":", "."}
           /\ K # {}
        THEN [ok |-> TRUE,
              num |-> Sub(text, b1, d - 1),
              content |-> Sub(text, q + Max(K), StopAt(text, q + Max(K), {NL}) - 1),
              last |-> StopAt(text, q + Max(K), {NL}) - 1]
        ELSE [ok |-> FALSE, num |-> <<>>, content |-> <<>>, last |-> 0]

\* numPattern tried at index p: (?:^|\n) is the start of the text (there is
\* no m flag) or one newline character
numMatchAt(text, p) ==
    IF p = 1 /\ numBodyAt(text, 1).ok
    THEN numBodyAt(text, 1)
    ELSE IF p <= Len(text) /\ text[p] = NL
         THEN numBodyAt(text, p + 1)
         ELSE [ok |-> FALSE, num |-> <<>>, content |-> <<>>, last |-> 0]

numberedRecord(m, prompt, location) ==
    [name |-> trim(m.content),
     rating |-> DefaultRating,
     location |-> locationOrDefault(location),
     description |-> DescPrefix \o prompt \o Quote,
     features |-> <<>>,
     additionalInfo |-> InfoNumPrefix \o m.num]

RECURSIVE numberedRecords(_, _, _, _)
\* while ((match = numPattern.exec(text)) !== null): from is lastIndex + 1
numberedRecords(text, from, prompt, location) ==
    LET P == {p \in from..Len(text) : numMatchAt(text, p).ok}
    IN  IF P = {} THEN <<>>
        ELSE LET m == numMatchAt(text, Min(P))
                 rest == numberedRecords(text, m.last + 1, prompt, location)
             IN  IF Len(trim(m.content)) > 0
                 THEN <<numberedRecord(m, prompt, location)>> \o rest
                 ELSE rest

IsLongParagraph(p) == Len(trim(p)) > MinParagraphLen

\* paragraph.split(/[.!?]|\n/)[0].trim()
firstLine(paragraph) ==
    trim(Sub(paragraph, 1, StopAt(paragraph, 1, {".", "!", "?", NL}) - 1))

paragraphRecord(paragraph, index, prompt, location) ==
    [name |-> IF Len(firstLine(paragraph)) > 0
              THEN firstLine(paragraph)
              ELSE RecommendationSp \o NumToStr(index + 1),
     rating |-> DefaultRating,
     location |-> locationOrDefault(location),
     description |-> paragraph,
     features |-> <<>>,
     additionalInfo |-> BasedOnPrefix \o prompt \o Quote]

\* text.split('\n\n').filter(p => p.trim().length > 10).slice(0, 3).forEach
paragraphRecords(text, prompt, location) ==
    LET paragraphs == SelectSeq(split(text, ParagraphBreak), IsLongParagraph)
        n == IF Len(paragraphs) < MaxParagraphs
             THEN Len(paragraphs) ELSE MaxParagraphs
    IN  [i \in 1..n |-> paragraphRecord(paragraphs[i], i - 1, prompt, location)]

\* singleRecord with the description left untrimmed and the name unprefixed
singleRecordRaw(text, prompt, location) ==
    [name |-> prompt,
     rating |-> DefaultRating,
     location |-> locationOrDefault(location),
     description |-> text,
     features |-> <<>>,
     additionalInfo |-> BasedOnModel]

singleRecord(text, prompt, location) ==
    [name |-> PlacesFor \o prompt,
     rating |-> DefaultRating,
     location |-> locationOrDefault(location),
     description |-> trim(text),
     features |-> <<>>,
     additionalInfo |-> BasedOnModel]

\* extractRecommendationsDirectly without the single-record stage
extractWithoutSingleRecord(text, prompt, location) ==
    LET numbered == numberedRecords(text, 1, prompt, location)
        paragraphs == paragraphRecords(text, prompt, location)
    IN  IF Len(numbered) # 0 THEN numbered ELSE paragraphs

extractRecommendationsDirectly(text, prompt, location) ==
    LET numbered == numberedRecords(text, 1, prompt, location)
        paragraphs == paragraphRecords(text, prompt, location)
    IN  IF Len(numbered) # 0 THEN numbered
        ELSE IF Len(paragraphs) # 0 THEN paragraphs
        ELSE <<singleRecord(text, prompt, location)>>

\* the fallback stages run after the grammar stage whatever it produced
processModelResponseAppending(rawResponse, prompt, location) ==
    grammarRecords(rawResponse)
        \o extractRecommendationsDirectly(rawResponse, prompt, location)

\* rawResponse is a string, so nothing in the try block throws and the
\* catch clause (the same fallback call) is not taken
processModelResponse(rawResponse, prompt, location) ==
    IF Len(recBlocks(rawResponse)) = 0
    THEN extractRecommendationsDirectly(rawResponse, prompt, location)
    ELSE IF Len(grammarRecords(rawResponse)) = 0
         THEN extractRecommendationsDirectly(rawResponse, prompt, location)
         ELSE grammarRecords(rawResponse)

----------------------------------------------------------------------------
(* The record reconciler: MapsService.enhanceRecommendationsWithRealData *)

\* this.apiKey, an opaque configuration string
ApiKey == "KEY"

\* getPhotoUrl(photoReference, maxWidth = 400)
DefaultMaxWidth == 400

\* the template literal of getPhotoUrl, kept as its chunks
getPhotoUrl(photoReference, maxWidth) ==
    <<"https://maps.googleapis.com/maps/api/place/photo?maxwidth=", maxWidth,
      "&photoreference=", photoReference, "&key=", ApiKey>>

\* index of the first element of hit (the indices that pass the test of
\* realRestaurants.find), 0 when no element passes
firstIndex(hit) == IF hit = {} THEN 0 ELSE Min(hit)

\* findMatchingRestaurant in one pass: the first place that matches exactly
\* or by substring
findMatchingSinglePass(aiRec, realRestaurants) ==
    LET Either(real) ==
            \/ toLowerCase(real.name) = toLowerCase(aiRec.name)
            \/ includes(toLowerCase(real.name), toLowerCase(aiRec.name))
            \/ includes(toLowerCase(aiRec.name), toLowerCase(real.name))
    IN  firstIndex({i \in 1..Len(realRestaurants) : Either(realRestaurants[i])})

\* index in realRestaurants of the place findMatchingRestaurant returns,
\* 0 when it returns null
findMatchingRestaurant(aiRec, realRestaurants) ==
    LET Exact(real) == toLowerCase(real.name) = toLowerCase(aiRec.name)
        Fuzzy(real) ==
            \/ includes(toLowerCase(real.name), toLowerCase(aiRec.name))
            \/ includes(toLowerCase(aiRec.name), toLowerCase(real.name))
        exact == firstIndex({i \in 1..Len(realRestaurants) :
                                Exact(realRestaurants[i])})
    IN  IF exact # 0 THEN exact
        ELSE firstIndex({i \in 1..Len(realRestaurants) :
                            Fuzzy(realRestaurants[i])})

\* the object pushed when a matching restaurant was found
mergedRecord(aiRec, matchingRestaurant) ==
    [name |-> aiRec.name,
     description |-> aiRec.description,
     dishes |-> Get(aiRec, "dishes"),
     priceInfo |-> Get(aiRec, "priceInfo"),
     placeId |-> Str(matchingRestaurant.id),
     rating |-> IF Truthy(matchingRestaurant.rating)
                THEN matchingRestaurant.rating.value
                ELSE aiRec.rating,
     userRatingsTotal |-> matchingRestaurant.userRatingsTotal,
     address |-> matchingRestaurant.vicinity,
     photoUrl |-> IF Len(matchingRestaurant.photos) > 0
                  THEN Str(getPhotoUrl(matchingRestaurant.photos[1].reference,
                                       DefaultMaxWidth))
                  ELSE Null,
     location |-> matchingRestaurant.location,
     priceLevel |-> matchingRestaurant.priceLevel,
     openNow |-> matchingRestaurant.openNow]

\* unmatchedRecord that also writes an (undefined) address field
unmatchedRecordWithAddress(aiRec) ==
    [f \in DOMAIN aiRec \cup {"photoUrl", "placeId", "address"} |->
        IF f \in {"photoUrl", "placeId"} THEN Null
        ELSE IF f = "address" THEN Undefined
        ELSE aiRec[f]]

\* { ...aiRec, photoUrl: null, placeId: null }
unmatchedRecord(aiRec) ==
    [f \in DOMAIN aiRec \cup {"photoUrl", "placeId"} |->
        IF f \in {"photoUrl", "placeId"} THEN Null ELSE aiRec[f]]

RECURSIVE enhanceMatchedOnly(_, _)
\* enhanceRecommendationsWithRealData that pushes nothing for a record
\* without a matching restaurant
enhanceMatchedOnly(aiRecommendations, realRestaurants) ==
    IF Len(aiRecommendations) = 0 THEN <<>>
    ELSE LET aiRec == Head(aiRecommendations)
             m == findMatchingRestaurant(aiRec, realRestaurants)
             rest == enhanceMatchedOnly(Tail(aiRecommendations), realRestaurants)
         IN  IF m # 0
             THEN <<mergedRecord(aiRec, realRestaurants[m])>> \o rest
             ELSE rest

enhanceRecommendationsWithRealData(aiRecommendations, realRestaurants) ==
    [i \in 1..Len(aiRecommendations) |->
        LET aiRec == aiRecommendations[i]
            m == findMatchingRestaurant(aiRec, realRestaurants)
        IN  IF m # 0
            THEN mergedRecord(aiRec, realRestaurants[m])
            ELSE unmatchedRecord(aiRec)]

----------------------------------------------------------------------------
(* Bounded inputs *)

\* lines per raw model output
MaxLines == 3

\* AI records per reconciled list
MaxRecords == 2

\* authoritative places per reconciled list
MaxPlaces == 2

\* the lines a raw model output is made of: blank, block marker, PLACE
\* lines (well formed, without stars, without a name, lower-case label
\* with six filled stars), a FEATURES line, a DESCRIPTION line, a numbered
\* item, prose
Lines ==
    { <<>>,
      <<"-", "-", "-">>,
      <<"P", "L", "A", "C", "E", ":", " ", "C", "d">>,
      <<"P", "L", "A", "C", "E", ":", " ", "A", "b", " ",
        "STAR", "STAR", "STAR", "ESTAR", "ESTAR">>,
      <<"P", "L", "A", "C", "E", ":", " ", "STAR">>,
      <<"p", "l", "a", "c", "e", ":", " ", "a", "b",
        "STAR", "STAR", "STAR", "STAR", "STAR", "STAR">>,
      <<"F", "E", "A", "T", "U", "R", "E", "S", ":", " ", "w", ",", " ", "o">>,
      <<"D", "E", "S", "C", "R", "I", "P", "T", "I", "O", "N", ":", " ",
        "C", "o", "z", "y">>,
      <<"1", ".", " ", "C", "d">>,
      <<"T", "r", "y", " ", "C", "a", "f", "e", " ", "A", "b", ".", " ",
        "N", "i", "c", "e">> }

RECURSIVE JoinLines(_)
\* the lines joined by newline characters
JoinLines(ls) ==
    IF Len(ls) = 0 THEN <<>>
    ELSE IF Len(ls) = 1 THEN ls[1]
    ELSE ls[1] \o <<NL>> \o JoinLines(Tail(ls))

\* response.data[0].generated_text of a successful call
RawTexts ==
    {JoinLines(ls) : ls \in UNION {[1..n -> Lines] : n \in 0..MaxLines}}

Prompts == { <<"p", "i", "z", "z", "a">> }

\* params.location: an address, or null
Locations == { Null, Str(<<"G", "o", "a">>) }

\* place.rating of the Places API: absent, or a number
PlaceRatings == { Undefined, Num(0), Num(5) }

PlaceNames == { <<"A", "B">>, <<"a", "b", "c">>, <<"b">> }

\* one element of nearbyResult.restaurants, lines 94-111 of maps.service.js
Place(name, rating) ==
    [id |-> [place |-> name, rated |-> rating],
     name |-> name,
     rating |-> rating,
     userRatingsTotal |-> IF rating = Undefined THEN Undefined ELSE Num(7),
     vicinity |-> Str(<<"M", "G">>),
     priceLevel |-> Undefined,
     photos |-> IF name = <<"A", "B">> THEN <<[reference |-> "ref1"]>> ELSE <<>>,
     location |-> [lat |-> 12, lng |-> 77],
     openNow |-> Undefined]

Places == {Place(n, r) : n \in PlaceNames, r \in PlaceRatings}

PlaceLists == UNION {[1..n -> Places] : n \in 0..MaxPlaces}

\* the nearby lists of the parse-then-reconcile runs
NearbyLists ==
    { <<>>,
      <<Place(<<"A", "B">>, Num(5))>>,
      <<Place(<<"b">>, Undefined), Place(<<"A", "B">>, Num(0))>> }

AINames == { <<"a", "b">>, <<"b">>, <<>>, <<"x", "y">> }

\* a record of the shape processModelResponse returns
AIRecord(name) ==
    [name |-> name,
     rating |-> DefaultRating,
     location |-> <<"G", "o", "a">>,
     description |-> <<"d">> \o name,
     features |-> <<<<"w">>, name>>,
     additionalInfo |-> <<>>]

\* a record of the older shape, with the dishes and priceInfo fields
\* enhanceRecommendationsWithRealData reads
LegacyRecord ==
    [name |-> <<"a", "b">>,
     rating |-> 3,
     description |-> <<"o", "l", "d">>,
     dishes |-> Arr(<<<<"d", "a", "l">>>>),
     priceInfo |-> Str(<<"$">>)]

AIRecords == {AIRecord(n) : n \in AINames} \cup {LegacyRecord}

AIRecordLists == UNION {[1..n -> AIRecords] : n \in 0..MaxRecords}

----------------------------------------------------------------------------
(* State *)

VARIABLES
    pc,               \* the step the request is at
    prompt,           \* params.prompt
    location,         \* params.location
    rawResponse,      \* response.data of callHuggingFaceAPI
    recommendations,  \* the parser's records (aiRecommendations)
    realRestaurants,  \* nearbyResult.restaurants
    enhanced,         \* result of enhanceRecommendationsWithRealData
    textResult,       \* result of gptjService.generateText
    extraction,       \* result of extractQueryComponents
    at,               \* per processUserQuery invocation: the await it is at
    locals,           \* the local variables of the processUserQuery invocations
    results,          \* per invocation: the object processUserQuery returned
    calls,            \* per invocation: the collaborator calls it has made
    answers,          \* per invocation: the collaborator answers it was given
    request,          \* req.query of the recommendation endpoint
    response,         \* what the recommendation endpoint sent with res.json
    generation        \* options given to generateText, parameters it posted

vars == <<pc, prompt, location, rawResponse, recommendations,
          realRestaurants, enhanced, textResult, extraction,
          at, locals, results, calls, answers, request, response,
          generation>>

\* the variables of the processUserQuery invocations
queryVars == <<at, locals, results, calls, answers>>

\* the variables of the recommendation endpoint
handlerVars == <<request, response>>

\* the variables of a generateText call
upstreamVars == <<generation>>

\* the variables of the query extractor
extractorVars == <<textResult, extraction>>

\* the variables of the parser and the reconciler
pipelineVars == <<prompt, location, rawResponse, recommendations,
                  realRestaurants, enhanced>>

----------------------------------------------------------------------------
(* Parse, then reconcile *)

Init ==
    /\ pc = "nearby"
    /\ prompt \in Prompts
    /\ location \in Locations
    /\ rawResponse = <<>>
    /\ recommendations = <<>>
    /\ realRestaurants = <<>>
    /\ enhanced = <<>>
    /\ textResult = Undefined
    /\ extraction = Undefined
    /\ at = <<>>
    /\ locals = <<>>
    /\ results = <<>>
    /\ calls = <<>>
    /\ answers = <<>>
    /\ request = Undefined
    /\ response = Undefined
    /\ generation = Undefined

\* mapsService.findNearbyRestaurants answers with the candidate places
FindNearbyRestaurants ==
    /\ pc = "nearby"
    /\ \E places \in NearbyLists : realRestaurants' = places
    /\ pc' = "generate"
    /\ UNCHANGED <<prompt, location, rawResponse, recommendations, enhanced>>
    /\ UNCHANGED <<extractorVars, queryVars, handlerVars, upstreamVars>>

\* callHuggingFaceAPI returns { success: true, data: generated_text }
CallHuggingFaceAPI ==
    /\ pc = "generate"
    /\ \E raw \in RawTexts : rawResponse' = raw
    /\ pc' = "parse"
    /\ UNCHANGED <<prompt, location, recommendations, realRestaurants, enhanced>>
    /\ UNCHANGED <<extractorVars, queryVars, handlerVars, upstreamVars>>

\* callHuggingFaceAPI returns { success: false }: no parsing takes place
CallHuggingFaceAPIFails ==
    /\ pc = "generate"
    /\ pc' = "failed"
    /\ UNCHANGED <<prompt, location, rawResponse, recommendations,
                   realRestaurants, enhanced>>
    /\ UNCHANGED <<extractorVars, queryVars, handlerVars, upstreamVars>>

\* const processedResponse = this.processModelResponse(response.data, prompt, location)
ProcessModelResponse ==
    /\ pc = "parse"
    /\ recommendations' = processModelResponse(rawResponse, prompt, location)
    /\ pc' = "enhance"
    /\ UNCHANGED <<prompt, location, rawResponse, realRestaurants, enhanced>>
    /\ UNCHANGED <<extractorVars, queryVars, handlerVars, upstreamVars>>

\* mapsService.enhanceRecommendationsWithRealData(recommendations, restaurants)
EnhanceRecommendations ==
    /\ pc = "enhance"
    /\ enhanced' = enhanceRecommendationsWithRealData(recommendations,
                                                      realRestaurants)
    /\ pc' = "done"
    /\ UNCHANGED <<prompt, location, rawResponse, recommendations,
                   realRestaurants>>
    /\ UNCHANGED <<extractorVars, queryVars, handlerVars, upstreamVars>>

Next ==
    \/ FindNearbyRestaurants
    \/ CallHuggingFaceAPI
    \/ CallHuggingFaceAPIFails
    \/ ProcessModelResponse
    \/ EnhanceRecommendations

Spec == Init /\ [][Next]_vars

----------------------------------------------------------------------------
(* The reconciler alone, on arbitrary record and place lists *)

InitReconcile ==
    /\ pc = "enhance"
    /\ prompt = <<>>
    /\ location = Null
    /\ rawResponse = <<>>
    /\ recommendations \in AIRecordLists
    /\ realRestaurants \in PlaceLists
    /\ enhanced = <<>>
    /\ textResult = Undefined
    /\ extraction = Undefined
    /\ at = <<>>
    /\ locals = <<>>
    /\ results = <<>>
    /\ calls = <<>>
    /\ answers = <<>>
    /\ request = Undefined
    /\ response = Undefined
    /\ generation = Undefined

NextReconcile == EnhanceRecommendations

SpecReconcile == InitReconcile /\ [][NextReconcile]_vars

----------------------------------------------------------------------------
(* The query extractor: PromptService.extractQueryComponents *)

NoneWord ==
    <<"n", "o", "n", "e">>

FindRestaurant ==
    <<"f", "i", "n", "d", " ", "r", "e", "s", "t", "a", "u", "r", "a", "n", "t">>

KeyIntent ==
    <<"i", "n", "t", "e", "n", "t">>

KeyLocation ==
    <<"l", "o", "c", "a", "t", "i", "o", "n">>

KeyCuisine ==
    <<"c", "u", "i", "s", "i", "n", "e">>

KeyPreferences ==
    <<"p", "r", "e", "f", "e", "r", "e", "n", "c", "e", "s">>

\* const [key, ...valueParts] = line.split(':')
lineKey(line) ==
    LET i == indexOf(line, <<":">>, 1)
    IN  IF i = 0 THEN line ELSE Sub(line, 1, i - 1)

\* valueParts.join(':').trim(): the text after the first colon, trimmed
lineValue(line) ==
    LET i == indexOf(line, <<":">>, 1)
    IN  IF i = 0 THEN <<>> ELSE trim(Sub(line, i + 1, Len(line)))

\* value.toLowerCase() !== 'none', compared without lowering the case
isNotNoneCaseSensitive(value) == value # NoneWord

\* value.toLowerCase() !== 'none'
isNotNone(value) == toLowerCase(value) # NoneWord

\* key && value && value.toLowerCase() !== 'none'
lineIsKept(line) ==
    /\ Len(lineKey(line)) > 0
    /\ Len(lineValue(line)) > 0
    /\ isNotNone(lineValue(line))

RECURSIVE componentsOf(_, _)
\* the for loop over lines: components[key.toLowerCase()] = value, a later
\* line overwriting an earlier one with the same key
componentsOf(lines, components) ==
    IF Len(lines) = 0 THEN components
    ELSE LET line == Head(lines)
             key == toLowerCase(lineKey(line))
         IN  IF lineIsKept(line)
             THEN componentsOf(Tail(lines),
                      [k \in DOMAIN components \cup {key} |->
                          IF k = key THEN lineValue(line) ELSE components[k]])
             ELSE componentsOf(Tail(lines), components)

\* components.name || null
componentOrNull(components, key) ==
    IF key \in DOMAIN components /\ Len(components[key]) > 0
    THEN Str(components[key])
    ELSE Null

\* the object extractQueryComponents returns for a generateText result
extractQueryComponents(result) ==
    IF ~result.success
    THEN [success |-> FALSE, message |-> "Failed to process your query"]
    ELSE LET lines == split(trim(result.text), <<NL>>)
             components == componentsOf(lines, <<>>)
         IN  [success |-> TRUE,
              intent |-> IF Truthy(componentOrNull(components, KeyIntent))
                         THEN components[KeyIntent]
                         ELSE FindRestaurant,
              locationQuery |-> componentOrNull(components, KeyLocation),
              cuisine |-> componentOrNull(components, KeyCuisine),
              preferences |-> componentOrNull(components, KeyPreferences)]

\* lines per generated extraction text
MaxExtractLines == 3

\* lines the model may answer the extraction prompt with
ExtractLines ==
    { <<"I", "n", "t", "e", "n", "t", ":", " ", "e", "a", "t">>,
      <<"I", "n", "t", "e", "n", "t", ":">>,
      <<"L", "o", "c", "a", "t", "i", "o", "n", ":", " ", "N", "O", "N", "E">>,
      <<"L", "o", "c", "a", "t", "i", "o", "n", ":", " ", "G", "o", "a">>,
      <<" ", "L", "o", "c", "a", "t", "i", "o", "n", ":", " ", "x">>,
      <<"C", "u", "i", "s", "i", "n", "e", ":", " ", "N", "o", "n", "e">>,
      <<"c", "u", "i", "s", "i", "n", "e", ":", " ", "t", "h", "a", "i">>,
      <<"P", "r", "e", "f", "e", "r", "e", "n", "c", "e", "s", ":", " ",
        "a", ":", "b">>,
      <<"h", "e", "l", "l", "o">> }

\* result.text of a successful generateText call
ExtractTexts ==
    {JoinLines(ls) : ls \in UNION {[1..n -> ExtractLines] : n \in 0..MaxExtractLines}}

InitExtract ==
    /\ pc = "generateText"
    /\ prompt = <<>>
    /\ location = Null
    /\ rawResponse = <<>>
    /\ recommendations = <<>>
    /\ realRestaurants = <<>>
    /\ enhanced = <<>>
    /\ textResult = Undefined
    /\ extraction = Undefined
    /\ at = <<>>
    /\ locals = <<>>
    /\ results = <<>>
    /\ calls = <<>>
    /\ answers = <<>>
    /\ request = Undefined
    /\ response = Undefined
    /\ generation = Undefined

\* gptjService.generateText returns { success: true, text }
GenerateTextSucceeds ==
    /\ pc = "generateText"
    /\ \E text \in ExtractTexts :
          textResult' = [success |-> TRUE, text |-> text]
    /\ pc' = "components"
    /\ UNCHANGED extraction
    /\ UNCHANGED <<pipelineVars, queryVars, handlerVars, upstreamVars>>

\* gptjService.generateText returns { success: false }
GenerateTextFails ==
    /\ pc = "generateText"
    /\ textResult' = [success |-> FALSE, text |-> <<>>]
    /\ pc' = "components"
    /\ UNCHANGED extraction
    /\ UNCHANGED <<pipelineVars, queryVars, handlerVars, upstreamVars>>

\* the rest of extractQueryComponents, from the check of result.success on
ExtractQueryComponents ==
    /\ pc = "components"
    /\ extraction' = extractQueryComponents(textResult)
    /\ pc' = "extracted"
    /\ UNCHANGED textResult
    /\ UNCHANGED <<pipelineVars, queryVars, handlerVars, upstreamVars>>

NextExtract ==
    \/ GenerateTextSucceeds
    \/ GenerateTextFails
    \/ ExtractQueryComponents

SpecExtract == InitExtract /\ [][NextExtract]_vars

----------------------------------------------------------------------------
(* The free-form query pipeline: PromptService.processUserQuery *)

\* the methods an instance of class MapsService has
mapsServiceMethods ==
    {"searchLocation", "findNearbyRestaurants", "getRestaurantDetails",
     "getPhotoUrl", "enhanceRecommendationsWithRealData",
     "findMatchingRestaurant"}

\* the methods an instance of class GptService has
gptjServiceMethods ==
    {"generatePlaceRecommendations", "createPlaceRecommendationPrompt",
     "callHuggingFaceAPI", "processModelResponse",
     "extractRecommendationsDirectly", "generateText"}

\* "restaurants " of line 81
RestaurantsSp ==
    <<"r", "e", "s", "t", "a", "u", "r", "a", "n", "t", "s", " ">>

\* 'restaurants' of line 89
RestaurantsWord == <<"r", "e", "s", "t", "a", "u", "r", "a", "n", "t", "s">>

\* nearbyResult.restaurants.slice(0, 5) of line 232
TopNearby == 5

\* radius of the nearby search, line 221
NearbyRadius == 1500

\* one collaborator call: the method and what it was passed
Call(fn, arg) == [fn |-> fn, arg |-> arg]

\* what one run of processUserQuery between two awaits leaves behind: the
\* local variables, the await it stops at ("returned" after a return,
\* "threw" after an exception that leaves the function), the returned
\* object and the collaborator calls made
Out(loc, pos, res, made) ==
    [locals |-> loc, at |-> pos, result |-> res, calls |-> made]

\* return <res>
Returned(loc, res, made) == Out(loc, "returned", res, made)

\* the catch block of extractQueryComponents
extractQueryComponentsCatch ==
    [success |-> FALSE, message |-> "Failed to understand your query"]

\* an exception that is not caught leaves the function
processUserQueryRethrow == [returned |-> FALSE, result |-> Undefined]

\* the catch block of processUserQuery
processUserQueryCatch ==
    [returned |-> TRUE,
     result |-> [success |-> FALSE,
                 message |-> "Sorry, I had trouble processing your request"]]

\* an exception raised inside the try block of processUserQuery
Caught(loc, made) ==
    Out(loc,
        IF processUserQueryCatch.returned THEN "returned" ELSE "threw",
        processUserQueryCatch.result,
        made)

\* the catch block of getRecommendationsForQuery
getRecommendationsForQueryCatch ==
    [success |-> FALSE, message |-> "Failed to get recommendations"]

\* extractQueryComponents on the answer of gptjService.generateText; an
\* answer whose text is not a string makes result.text.trim() throw
extractionOf(ans) ==
    IF ans.success /\ ans.text.type # "string"
    THEN extractQueryComponentsCatch
    ELSE extractQueryComponents(
             [success |-> ans.success,
              text |-> IF ans.success THEN ans.text.value ELSE <<>>])

\* the failed location search, lines 43-50
locationNotFoundWithoutFlag ==
    [success |-> FALSE,
     message |-> "Could not find the location you mentioned"]

locationNotFound ==
    [success |-> FALSE,
     message |-> "Could not find the location you mentioned",
     needsLocationClarification |-> TRUE,
     possibleLocations |-> <<>>]

\* no location in the query and none from the caller, lines 65-72
locationMissing ==
    [success |-> FALSE,
     message |-> "I need to know where to look for restaurants. Could you specify a location?",
     needsLocationClarification |-> TRUE]

\* searchResult.locations.length > 2
isAmbiguousOverTwo(foundLocations) == Len(foundLocations) > 2

\* searchResult.locations.length > 1
isAmbiguous(foundLocations) == Len(foundLocations) > 1

\* several locations found, lines 53-60
clarification(foundLocations) ==
    [success |-> TRUE,
     message |-> "Please clarify which location you mean",
     needsLocationClarification |-> TRUE,
     possibleLocations |-> foundLocations]

\* Step 3 of processUserQuery, lines 75-90
buildSearchQuery(cuisine, preferences) ==
    LET withCuisine == IF Truthy(cuisine)
                       THEN cuisine.value \o <<" ">>
                       ELSE <<>>
        withWord == withCuisine \o RestaurantsSp
        withPreferences == IF Truthy(preferences)
                           THEN withWord \o preferences.value
                           ELSE withWord
        searchQuery == trim(withPreferences)
    IN  IF searchQuery = <<>> THEN RestaurantsWord ELSE searchQuery

\* processUserQuery from the value of extractionResult up to its next
\* await or its return, lines 21-41 and 65-72
extracted(loc, extractionResult) ==
    LET asked == <<Call("generateText", Null)>>
        kept == [loc EXCEPT !.extractionResult = extractionResult]
    IN  IF ~extractionResult.success
        THEN Returned(kept, extractionResult, asked)
        ELSE IF ~Truthy(extractionResult.locationQuery)
                /\ Truthy(loc.userLocation)
        THEN IF "reverseGeocode" \in mapsServiceMethods
             THEN Out(kept, "reverseGeocode", Undefined,
                      asked \o <<Call("reverseGeocode", loc.userLocation)>>)
             ELSE Caught(kept, asked)
        ELSE IF Truthy(extractionResult.locationQuery)
        THEN Out(kept, "searchLocation", Undefined,
                 asked \o <<Call("searchLocation",
                                 extractionResult.locationQuery)>>)
        ELSE Returned(kept, locationMissing, asked)

\* const extractionResult = await this.extractQueryComponents(userInput),
\* and what follows it
afterExtraction(loc, ans) == extracted(loc, extractionOf(ans))

\* processUserQuery from the answer of searchLocation up to the first await
\* of getRecommendationsForQuery, lines 43-64, 75-93 and 199
afterSearchLocation(loc, ans) ==
    IF ~ans.success
    THEN Returned(loc, locationNotFound, <<>>)
    ELSE IF isAmbiguous(ans.locations)
    THEN Returned(loc, clarification(ans.locations), <<>>)
    ELSE IF Len(ans.locations) = 0
    THEN Caught(loc, <<>>)
    ELSE LET first == ans.locations[1]
             locationId == Get(first, "place_id")
             searchQuery == buildSearchQuery(loc.extractionResult.cuisine,
                                             loc.extractionResult.preferences)
         IN  Out([loc EXCEPT !.locationId = locationId,
                             !.location = Get(first, "formatted_address"),
                             !.searchQuery = searchQuery],
                 "getRestaurantDetails",
                 Undefined,
                 <<Call("getRestaurantDetails", locationId)>>)

\* getRecommendationsForQuery from the answer of getRestaurantDetails up to
\* its next await, lines 200-222
afterRestaurantDetails(loc, ans) ==
    IF ~ans.success
    THEN Returned(loc,
                  [success |-> FALSE,
                   message |-> "Failed to get location details"],
                  <<>>)
    ELSE LET geometry == ans.details.geometry
             place == [name |-> ans.details.name,
                       address |-> ans.details.address,
                       lat |-> IF geometry = Undefined
                               THEN Undefined
                               ELSE geometry.location.lat,
                       lng |-> IF geometry = Undefined
                               THEN Undefined
                               ELSE geometry.location.lng]
         IN  Out([loc EXCEPT !.place = place],
                 "findNearbyRestaurants",
                 Undefined,
                 <<Call("findNearbyRestaurants",
                        [location |-> [lat |-> place.lat, lng |-> place.lng],
                         query |-> loc.searchQuery,
                         radius |-> NearbyRadius])>>)

\* getRecommendationsForQuery from the answer of findNearbyRestaurants on,
\* lines 224-233 and 250-256, and lines 95-97 of processUserQuery
afterNearbyRestaurants(loc, ans) ==
    IF ~ans.success
    THEN Returned(loc, ans, <<>>)
    ELSE IF "generateRecommendations" \in gptjServiceMethods
    THEN Out(loc, "generateRecommendations", Undefined,
             <<Call("generateRecommendations",
                    [location |-> loc.place.address,
                     query |-> loc.searchQuery,
                     nearbyRestaurants |->
                         SubSeq(ans.restaurants, 1,
                                Min({TopNearby, Len(ans.restaurants)}))])>>)
    ELSE Returned(loc, getRecommendationsForQueryCatch, <<>>)

\* the continuation that runs when the await at pos is answered
resume(pos, loc, ans) ==
    CASE pos = "extractQueryComponents" -> afterExtraction(loc, ans)
      [] pos = "searchLocation" -> afterSearchLocation(loc, ans)
      [] pos = "getRestaurantDetails" -> afterRestaurantDetails(loc, ans)
      [] pos = "findNearbyRestaurants" -> afterNearbyRestaurants(loc, ans)

\* the concurrent invocations of processUserQuery
Invocations == {1, 2}

\* local variables kept on the shared service instance
sharedSlot(r) == 1

\* the local variables of invocation r live in its own activation record
ownSlot(r) == r

\* candidates per answer of searchLocation
MaxLocations == 2

\* userLocation of the callers
UserLocations == {Null, [type |-> "object", lat |-> 15, lng |-> 74]}

\* result.text of the extraction prompt
QueryTexts ==
    { <<>>,
      <<"L", "o", "c", "a", "t", "i", "o", "n", ":", " ", "G", "o", "a">>,
      <<"c", "u", "i", "s", "i", "n", "e", ":", " ", "t", "h", "a", "i">>,
      JoinLines(<< <<"L", "o", "c", "a", "t", "i", "o", "n", ":", " ",
                     "G", "o", "a">>,
                   <<"c", "u", "i", "s", "i", "n", "e", ":", " ",
                     "t", "h", "a", "i">>,
                   <<"P", "r", "e", "f", "e", "r", "e", "n", "c", "e", "s",
                     ":", " ", "a", ":", "b">> >>) }

\* what gptjService.generateText may answer: a text, a failure, or a
\* generated_text that is not a string
GenerateTextAnswers ==
    {[success |-> TRUE, text |-> Str(t)] : t \in QueryTexts}
        \cup {[success |-> FALSE, text |-> Undefined],
              [success |-> TRUE, text |-> Arr(<<>>)]}

\* one element of searchResult.locations, lines 38-47 of maps.service.js
FoundLocation(id, address) ==
    [id |-> Str(id),
     name |-> Str(<<"G", "o", "a">>),
     address |-> Str(address),
     location |-> [lat |-> 15, lng |-> 74]]

FoundLocations ==
    { FoundLocation(<<"p", "1">>, <<"G", "o", "a", ",", " ", "I", "N">>),
      FoundLocation(<<"p", "2">>, <<"G", "o", "a", ",", " ", "U", "S">>) }

\* what mapsService.searchLocation may answer
SearchLocationAnswers ==
    {[success |-> TRUE, locations |-> ls] :
        ls \in UNION {[1..n -> FoundLocations] : n \in 0..MaxLocations}}
        \cup {[success |-> FALSE,
               message |-> "Google API error: ZERO_RESULTS",
               error |-> Undefined]}

\* what mapsService.getRestaurantDetails may answer
RestaurantDetailsAnswers ==
    {[success |-> TRUE,
      details |-> [name |-> Str(<<"G", "o", "a">>),
                   address |-> Str(<<"G", "o", "a", ",", " ", "I", "N">>),
                   geometry |-> g]] :
        g \in {Undefined, [location |-> [lat |-> 15, lng |-> 74]]}}
        \cup {[success |-> FALSE,
               message |-> "Google API error: INVALID_REQUEST",
               error |-> Undefined]}

\* what mapsService.findNearbyRestaurants may answer: the list, the Google
\* status with its error_message, or the message of a caught exception
NearbyRestaurantsAnswers ==
    {[success |-> TRUE, restaurants |-> ps] : ps \in NearbyLists}
        \cup {[success |-> FALSE,
               message |-> "Google API error: REQUEST_DENIED",
               error |-> Str(<<"k", "e", "y">>)],
              [success |-> FALSE,
               message |-> "Failed to find nearby restaurants",
               error |-> Str(<<"E", "C", "O", "N", "N">>)]}

\* the answers the await at pos can resume with
AnswersAt(pos) ==
    CASE pos = "extractQueryComponents" -> GenerateTextAnswers
      [] pos = "searchLocation" -> SearchLocationAnswers
      [] pos = "getRestaurantDetails" -> RestaurantDetailsAnswers
      [] pos = "findNearbyRestaurants" -> NearbyRestaurantsAnswers
      [] OTHER -> {}

\* the local variables when processUserQuery(userInput, userLocation) starts
InitialLocals(userLocation) ==
    [userLocation |-> userLocation,
     extractionResult |-> Undefined,
     locationId |-> Null,
     location |-> Null,
     searchQuery |-> <<>>,
     place |-> Undefined]

InitQuery ==
    /\ pc = "query"
    /\ prompt = <<>>
    /\ location = Null
    /\ rawResponse = <<>>
    /\ recommendations = <<>>
    /\ realRestaurants = <<>>
    /\ enhanced = <<>>
    /\ textResult = Undefined
    /\ extraction = Undefined
    /\ at = [r \in Invocations |-> "extractQueryComponents"]
    /\ locals \in [Invocations -> {InitialLocals(u) : u \in UserLocations}]
    /\ results = [r \in Invocations |-> Undefined]
    /\ calls = [r \in Invocations |-> <<>>]
    /\ answers = [r \in Invocations |-> <<>>]
    /\ request = Undefined
    /\ response = Undefined
    /\ generation = Undefined

\* invocation r resumes with the answer ans and runs to its next await
Resume(r, ans) ==
    \E out \in {resume(at[r], locals[ownSlot(r)], ans)} :
        /\ at' = [at EXCEPT ![r] = out.at]
        /\ locals' = [locals EXCEPT ![ownSlot(r)] = out.locals]
        /\ results' = [results EXCEPT ![r] = out.result]
        /\ calls' = [calls EXCEPT ![r] = @ \o out.calls]
        /\ answers' = [answers EXCEPT ![r] = Append(@, ans)]
        /\ UNCHANGED <<pc, pipelineVars, extractorVars, handlerVars, upstreamVars>>

\* await this.extractQueryComponents(userInput) is answered
AfterExtractQueryComponents(r) ==
    /\ at[r] = "extractQueryComponents"
    /\ \E ans \in GenerateTextAnswers : Resume(r, ans)

\* await mapsService.searchLocation(locationQuery) is answered
AfterSearchLocation(r) ==
    /\ at[r] = "searchLocation"
    /\ \E ans \in SearchLocationAnswers : Resume(r, ans)

\* await mapsService.getRestaurantDetails(locationId) is answered
AfterGetRestaurantDetails(r) ==
    /\ at[r] = "getRestaurantDetails"
    /\ \E ans \in RestaurantDetailsAnswers : Resume(r, ans)

\* await mapsService.findNearbyRestaurants(...) is answered
AfterFindNearbyRestaurants(r) ==
    /\ at[r] = "findNearbyRestaurants"
    /\ \E ans \in NearbyRestaurantsAnswers : Resume(r, ans)

NextQuery ==
    \E r \in Invocations :
        \/ AfterExtractQueryComponents(r)
        \/ AfterSearchLocation(r)
        \/ AfterGetRestaurantDetails(r)
        \/ AfterFindNearbyRestaurants(r)

SpecQuery == InitQuery /\ [][NextQuery]_vars

----------------------------------------------------------------------------
(* The recommendation endpoint: getRecommendations of the controller *)

\* error.message of the TypeError a call of an undefined method raises
NotAFunction == Str(<<"n", "o", "t", " ", "a", " ", "f", "u", "n", "c", "t", "i", "o", "n">>)

\* response.error of a failed callHuggingFaceAPI
NoResponseFromAPI == Str(<<"N", "o", " ", "r", "e", "s", "p", "o", "n", "s", "e">>)

\* 'Unknown error' of the failed-generation response
UnknownError == Str(<<"U", "n", "k", "n", "o", "w", "n", " ", "e", "r", "r", "o", "r">>)

\* res.status(status).json(body)
Response(status, body) == [status |-> status, body |-> body]

\* the catch block of getRecommendations
serverError(message) ==
    Response(500, [success |-> FALSE,
                   message |-> "Server error",
                   error |-> message])

\* req.query of the requests
Requests ==
    {[prompt |-> p, locationId |-> l] :
        p \in {Undefined, Str(<<"p", "i", "z", "z", "a">>)},
        l \in {Undefined, Str(<<"p", "1">>)}}

InitRecommend ==
    /\ pc = "request"
    /\ prompt = <<>>
    /\ location = Null
    /\ rawResponse = <<>>
    /\ recommendations = <<>>
    /\ realRestaurants = <<>>
    /\ enhanced = <<>>
    /\ textResult = Undefined
    /\ extraction = Undefined
    /\ at = <<>>
    /\ locals = <<>>
    /\ results = <<>>
    /\ calls = <<>>
    /\ answers = <<>>
    /\ request \in Requests
    /\ response = Undefined
    /\ generation = Undefined

\* if (!prompt) return res.status(400).json(...)
RejectMissingPrompt ==
    /\ pc = "request"
    /\ ~Truthy(request.prompt)
    /\ response' = Response(400, [success |-> FALSE,
                                  message |-> "A prompt is required"])
    /\ pc' = "responded"
    /\ UNCHANGED <<request, pipelineVars, extractorVars, queryVars, upstreamVars>>

\* if (locationId) { await mapsService.getPlaceDetails(locationId) ... }
GetPlaceDetails ==
    /\ pc = "request"
    /\ Truthy(request.prompt)
    /\ Truthy(request.locationId)
    /\ IF "getPlaceDetails" \in mapsServiceMethods
       THEN pc' = "getPlaceDetails" /\ UNCHANGED response
       ELSE pc' = "responded" /\ response' = serverError(NotAFunction)
    /\ UNCHANGED <<request, pipelineVars, extractorVars, queryVars, upstreamVars>>

\* without a locationId: location = null, nearbyPlaces = [], and
\* gptjService.generatePlaceRecommendations is called
GenerateWithoutLocation ==
    /\ pc = "request"
    /\ Truthy(request.prompt)
    /\ ~Truthy(request.locationId)
    /\ prompt' = request.prompt.value
    /\ location' = Null
    /\ pc' = "generate"
    /\ UNCHANGED <<rawResponse, recommendations, realRestaurants, enhanced>>
    /\ UNCHANGED <<extractorVars, queryVars, handlerVars, upstreamVars>>

\* generatePlaceRecommendations returned { success: true, recommendations }
RespondWithRecommendations ==
    /\ pc = "enhance"
    /\ response' = Response(200, [success |-> TRUE,
                                  location |-> location,
                                  recommendations |-> recommendations])
    /\ pc' = "responded"
    /\ UNCHANGED <<request, pipelineVars, extractorVars, queryVars, upstreamVars>>

\* generatePlaceRecommendations returned { success: false, message, error }
RespondGenerationFailed ==
    /\ pc = "failed"
    /\ \E error \in {NoResponseFromAPI, Undefined} :
          response' = Response(500,
              [success |-> FALSE,
               message |-> "Failed to generate recommendations",
               error |-> IF Truthy(error) THEN error ELSE UnknownError])
    /\ pc' = "responded"
    /\ UNCHANGED <<request, pipelineVars, extractorVars, queryVars, upstreamVars>>

NextRecommend ==
    \/ RejectMissingPrompt
    \/ GetPlaceDetails
    \/ GenerateWithoutLocation
    \/ CallHuggingFaceAPI
    \/ CallHuggingFaceAPIFails
    \/ ProcessModelResponse
    \/ RespondWithRecommendations
    \/ RespondGenerationFailed

SpecRecommend == InitRecommend /\ [][NextRecommend]_vars

----------------------------------------------------------------------------
(* The grammar stage alone, on answers written in the requested format *)

\* lines per answer in the requested format
MaxFieldLines == 4

\* the lines of such an answer: the block marker, a PLACE line and field
\* lines, one of them with an empty value and one with a second label in it
FieldLines ==
    { <<"-", "-", "-">>,
      <<"P", "L", "A", "C", "E", ":", " ", "A", "b", " ", "STAR",
        "STAR", "STAR">>,
      <<"L", "O", "C", "A", "T", "I", "O", "N", ":">>,
      <<"L", "O", "C", "A", "T", "I", "O", "N", ":", " ", "G", "o",
        "a">>,
      <<"D", "E", "S", "C", "R", "I", "P", "T", "I", "O", "N", ":",
        " ", "C", "o", "z", "y", " ", "I", "N", "F", "O", ":", " ",
        "x">>,
      <<"I", "N", "F", "O", ":", " ", "l", "a", "t", "e">>,
      <<"F", "E", "A", "T", "U", "R", "E", "S", ":", " ", "w", ",",
        " ", "o">> }

\* response.data[0].generated_text of a successful call
FormattedTexts ==
    {JoinLines(ls) : ls \in UNION {[1..n -> FieldLines] : n \in 0..MaxFieldLines}}

InitGrammar ==
    /\ pc = "generate"
    /\ prompt \in Prompts
    /\ location \in Locations
    /\ rawResponse = <<>>
    /\ recommendations = <<>>
    /\ realRestaurants = <<>>
    /\ enhanced = <<>>
    /\ textResult = Undefined
    /\ extraction = Undefined
    /\ at = <<>>
    /\ locals = <<>>
    /\ results = <<>>
    /\ calls = <<>>
    /\ answers = <<>>
    /\ request = Undefined
    /\ response = Undefined
    /\ generation = Undefined

\* callHuggingFaceAPI returns { success: true, data: generated_text }
CallHuggingFaceAPIFormatted ==
    /\ pc = "generate"
    /\ \E raw \in FormattedTexts : rawResponse' = raw
    /\ pc' = "parse"
    /\ UNCHANGED <<prompt, location, recommendations, realRestaurants, enhanced>>
    /\ UNCHANGED <<extractorVars, queryVars, handlerVars, upstreamVars>>

\* segments per answer that follows the example format of the prompt
MaxSegments == 2

\* "[Rating as 1-5 stars using STAR]" of the prompt
MaxStars == 5

\* k filled stars and then empty stars
Stars(k) == [i \in 1..MaxStars |-> IF i <= k THEN FilledStar ELSE EmptyStar]

\* items joined with ", "
RECURSIVE JoinItems(_)
JoinItems(items) ==
    IF Len(items) = 0 THEN <<>>
    ELSE IF Len(items) = 1 THEN items[1]
    ELSE items[1] \o <<",", " ">> \o JoinItems(Tail(items))

\* the segments the model may write: with all five lines of the example
\* format, or with the PLACE line left out
Segments ==
    {[place |-> TRUE, name |-> n, stars |-> k,
      location |-> <<"G", "o", "a">>,
      description |-> d,
      features |-> << <<"w">>, <<"o", "k">> >>,
      info |-> <<"l", "a", "t", "e">>] :
        n \in { <<"C", " ", "d">> },
        k \in {1, 3, MaxStars},
        d \in { <<"C", "o", "z", "y">>,
                <<"s", "e", "e", " ", "F", "E", "A", "T", "U", "R", "E", "S",
                  ":", " ", "x">> }}
        \cup {[place |-> FALSE, name |-> <<>>, stars |-> 0,
               location |-> <<"G", "o", "a">>,
               description |-> <<"C", "o", "z", "y">>,
               features |-> << <<"w">> >>,
               info |-> <<>>]}

\* the lines of one segment, each ended by a newline
SegmentText(seg) ==
    <<NL>>
    \o (IF seg.place
        THEN LabelPlace \o <<" ">> \o seg.name \o <<" ">> \o Stars(seg.stars)
                 \o <<NL>>
        ELSE <<>>)
    \o LabelLocation \o <<" ">> \o seg.location \o <<NL>>
    \o LabelDescription \o <<" ">> \o seg.description \o <<NL>>
    \o LabelFeatures \o <<" ">> \o JoinItems(seg.features) \o <<NL>>
    \o (IF seg.place THEN LabelInfo \o <<" ">> \o seg.info \o <<NL>> ELSE <<>>)

\* --- segment --- segment ---
RECURSIVE ConformingText(_)
ConformingText(segs) ==
    IF Len(segs) = 0 THEN BlockMarker
    ELSE BlockMarker \o SegmentText(Head(segs)) \o ConformingText(Tail(segs))

\* the answers in the example format, each with the segments it was
\* written from
ConformingAnswers ==
    {[segments |-> segs, text |-> ConformingText(segs)] :
        segs \in UNION {[1..n -> Segments] : n \in 0..MaxSegments}}

\* callHuggingFaceAPI returns an answer in the example format
CallHuggingFaceAPIConforming ==
    /\ pc = "generate"
    /\ \E answer \in ConformingAnswers : rawResponse' = answer.text
    /\ pc' = "parse"
    /\ UNCHANGED <<prompt, location, recommendations, realRestaurants, enhanced>>
    /\ UNCHANGED <<extractorVars, queryVars, handlerVars, upstreamVars>>

\* lines per answer written as a numbered list
MaxNumberedLines == 3

\* the lines of such an answer: two numbered items, a number without
\* content and a line of free text
NumberedLines ==
    { <<"1", ".", " ", "C", "d">>,
      RecommendationWord \o <<" ", "2", ":", " ", "E", "f">>,
      <<"3", ".">>,
      <<"N", "i", "c", "e", " ", "s", "p", "o", "t">> }

\* response.data[0].generated_text of a successful call
NumberedTexts ==
    {JoinLines(ls) :
        ls \in UNION {[1..n -> NumberedLines] : n \in 0..MaxNumberedLines}}

\* callHuggingFaceAPI returns an answer written as a numbered list
CallHuggingFaceAPINumbered ==
    /\ pc = "generate"
    /\ \E raw \in NumberedTexts : rawResponse' = raw
    /\ pc' = "parse"
    /\ UNCHANGED <<prompt, location, recommendations, realRestaurants, enhanced>>
    /\ UNCHANGED <<extractorVars, queryVars, handlerVars, upstreamVars>>

NextGrammar ==
    \/ CallHuggingFaceAPIFormatted
    \/ CallHuggingFaceAPIConforming
    \/ CallHuggingFaceAPINumbered
    \/ ProcessModelResponse

SpecGrammar == InitGrammar /\ [][NextGrammar]_vars

----------------------------------------------------------------------------
(* Text generation: GptService.generateText *)

\* max_new_tokens of the payload callHuggingFaceAPI posts
MaxNewTokens == 800

\* temperature of that payload, 0.7, in tenths
TemperatureTenths == 7

\* the options the callers pass: the query extractor (200 tokens, 0.3),
\* the summary step (300 tokens, 0.7), and none at all (options = {});
\* temperatures in tenths
GenerationOptions ==
    {[maxTokens |-> Num(200), temperature |-> Num(3)],
     [maxTokens |-> Num(300), temperature |-> Num(7)],
     [maxTokens |-> Undefined, temperature |-> Undefined]}

\* payload.parameters of callHuggingFaceAPI(prompt)
callHuggingFaceAPIParameters ==
    [max_new_tokens |-> MaxNewTokens, temperature |-> TemperatureTenths]

\* the parameters generateText(prompt, options) has posted: it calls
\* this.callHuggingFaceAPI(prompt) and makes no use of options
generateTextParameters(options) == callHuggingFaceAPIParameters

InitGenerateText ==
    /\ pc = "generateText"
    /\ prompt = <<>>
    /\ location = Null
    /\ rawResponse = <<>>
    /\ recommendations = <<>>
    /\ realRestaurants = <<>>
    /\ enhanced = <<>>
    /\ textResult = Undefined
    /\ extraction = Undefined
    /\ at = <<>>
    /\ locals = <<>>
    /\ results = <<>>
    /\ calls = <<>>
    /\ answers = <<>>
    /\ request = Undefined
    /\ response = Undefined
    /\ generation \in {[options |-> o, parameters |-> Undefined] :
                          o \in GenerationOptions}

\* generateText(prompt, options): the request is posted and answered with a
\* generated text or with a failure
GenerateText ==
    /\ pc = "generateText"
    /\ generation' = [generation EXCEPT
                         !.parameters = generateTextParameters(generation.options)]
    /\ \E result \in {[success |-> TRUE, text |-> t] : t \in ExtractTexts}
                        \cup {[success |-> FALSE, text |-> <<>>]} :
          textResult' = result
    /\ pc' = "generated"
    /\ UNCHANGED extraction
    /\ UNCHANGED <<pipelineVars, queryVars, handlerVars>>

SpecGenerateText == InitGenerateText /\ [][GenerateText]_vars

----------------------------------------------------------------------------
(* Properties *)

Parsed == pc \in {"enhance", "done"}

Reconciled == pc = "done"

\* t is a substring of s (the empty string is a substring of every string)
IsSubstring(t, s) ==
    \E k \in 0..(Len(s) - Len(t)) : \A n \in 1..Len(t) : s[k + n] = t[n]

SameIgnoringCase(a, b) == toLowerCase(a) = toLowerCase(b)

SubstringEitherWay(a, b) ==
    \/ IsSubstring(toLowerCase(a), toLowerCase(b))
    \/ IsSubstring(toLowerCase(b), toLowerCase(a))

\* the index of the place the i-th AI record is expected to be merged
\* with, 0 when there is none
ExpectedMatch(i) ==
    LET aiName == recommendations[i].name
        E == {j \in 1..Len(realRestaurants) :
                SameIgnoringCase(realRestaurants[j].name, aiName)}
        F == {j \in 1..Len(realRestaurants) :
                SubstringEitherWay(realRestaurants[j].name, aiName)}
    IN  IF E # {} THEN Min(E) ELSE IF F # {} THEN Min(F) ELSE 0

\* the longest run of filled stars in s
LongestStarRun(s) ==
    Max({0} \cup {n \in 1..Len(s) :
                    \E k \in 0..(Len(s) - n) :
                        \A j \in 1..n : s[k + j] = FilledStar})

\* C1: for every non-empty raw model output, processModelResponse returns
\* at least one recommendation record, whatever the query and location.
C1_NonEmptyOutputYieldsRecord ==
    (Parsed /\ Len(rawResponse) > 0) => Len(recommendations) >= 1

\* C1 witness: a non-empty output made of whitespace only has been parsed
\* into one record
C1_Witness ==
    /\ pc = "enhance"
    /\ Len(rawResponse) > 0
    /\ Len(trim(rawResponse)) = 0
    /\ Len(recommendations) = 1

C3_LengthAndOrderPreserved ==
    Reconciled =>
        /\ Len(enhanced) = Len(recommendations)
        /\ \A i \in 1..Len(recommendations) :
              enhanced[i].name = recommendations[i].name

\* C3 witness: two records with different names were reconciled, the first
\* unmatched and the second matched
C3_Witness ==
    /\ Reconciled
    /\ Len(recommendations) = 2
    /\ Len(enhanced) = 2
    /\ recommendations[1].name # recommendations[2].name
    /\ enhanced[1].placeId = Null
    /\ enhanced[2].placeId # Null

\* C4: the place merged into an AI record is the first place whose name
\* equals the AI name ignoring case, wherever it is in the list; otherwise
\* the first place whose lowercased name contains or is contained in the
\* lowercased AI name; otherwise none.
C4_ExactThenFirstFuzzy ==
    Reconciled =>
        \A i \in 1..Len(recommendations) :
            LET aiName == recommendations[i].name
                E == {j \in 1..Len(realRestaurants) :
                        SameIgnoringCase(realRestaurants[j].name, aiName)}
                F == {j \in 1..Len(realRestaurants) :
                        SubstringEitherWay(realRestaurants[j].name, aiName)}
            IN  /\ E # {} =>
                     enhanced[i].placeId = Str(realRestaurants[Min(E)].id)
                /\ (E = {} /\ F # {}) =>
                     enhanced[i].placeId = Str(realRestaurants[Min(F)].id)
                /\ (E = {} /\ F = {}) => enhanced[i].placeId = Null

\* C4 witness: the exact match stands after a place that matches only by
\* substring, and the exact match was taken
C4_Witness ==
    /\ Reconciled
    /\ Len(recommendations) >= 1
    /\ Len(realRestaurants) = 2
    /\ ~SameIgnoringCase(realRestaurants[1].name, recommendations[1].name)
    /\ SubstringEitherWay(realRestaurants[1].name, recommendations[1].name)
    /\ SameIgnoringCase(realRestaurants[2].name, recommendations[1].name)
    /\ enhanced[1].placeId = Str(realRestaurants[2].id)

\* C5 as stated: on a match the enriched rating is the authoritative rating
\* whenever the place has one (0 included), and the AI rating only when the
\* place has none.
C5_AuthoritativeRatingWins ==
    Reconciled =>
        \A i \in 1..Len(recommendations) :
            ExpectedMatch(i) # 0 =>
                LET place == realRestaurants[ExpectedMatch(i)]
                IN  IF place.rating.type = "number"
                    THEN enhanced[i].rating = place.rating.value
                    ELSE enhanced[i].rating = recommendations[i].rating

\* C6 as stated: on a match the enriched record keeps the name, the
\* description and the features list of the parser's record.
C6_NarrativeFieldsKept ==
    Reconciled =>
        \A i \in 1..Len(recommendations) :
            ExpectedMatch(i) # 0 =>
                /\ enhanced[i].name = recommendations[i].name
                /\ enhanced[i].description = recommendations[i].description
                /\ "features" \in DOMAIN enhanced[i]
                /\ enhanced[i].features = recommendations[i].features

\* C7 (state part): an AI record that matches no place is emitted with
\* placeId and photoUrl null, every field of the record unchanged and no
\* other field added.
C7_UnmatchedPassedThrough ==
    Reconciled =>
        \A i \in 1..Len(recommendations) :
            ExpectedMatch(i) = 0 =>
                /\ enhanced[i].placeId = Null
                /\ enhanced[i].photoUrl = Null
                /\ \A f \in DOMAIN recommendations[i] :
                      enhanced[i][f] = recommendations[i][f]
                /\ DOMAIN enhanced[i] =
                      DOMAIN recommendations[i] \cup {"placeId", "photoUrl"}
                /\ {"userRatingsTotal", "address", "priceLevel", "openNow"}
                      \cap DOMAIN enhanced[i] = {}

\* C7: the state part above, and reconciling leaves both input lists as
\* they were.
C7_UnmatchedAndInputsUntouched ==
    /\ []C7_UnmatchedPassedThrough
    /\ [][pc' = "done" =>
            /\ recommendations' = recommendations
            /\ realRestaurants' = realRestaurants]_vars

\* C7 witness: a record was reconciled against a non-empty list in which
\* nothing matches it
C7_Witness ==
    /\ Reconciled
    /\ Len(realRestaurants) > 0
    /\ \E i \in 1..Len(recommendations) :
          /\ ExpectedMatch(i) = 0
          /\ enhanced[i].placeId = Null
          /\ enhanced[i].features = recommendations[i].features

\* C8 as stated: every record the parser returns has a non-empty name.
C8_NameNeverEmpty ==
    Parsed =>
        \A i \in 1..Len(recommendations) : Len(recommendations[i].name) > 0

ExtractedLines == split(trim(textResult.text), <<NL>>)

\* the lines that carry a value for label: the text before the first colon
\* is the label in any letter case, and the trimmed text after it is
\* neither empty nor "none" in any letter case
ValueLines(label) ==
    {i \in 1..Len(ExtractedLines) :
        LET line == ExtractedLines[i]
            colon == indexOf(line, <<":">>, 1)
        IN  /\ colon # 0
            /\ SameIgnoringCase(Sub(line, 1, colon - 1), label)
            /\ Len(trim(Sub(line, colon + 1, Len(line)))) > 0
            /\ ~SameIgnoringCase(trim(Sub(line, colon + 1, Len(line))), NoneWord)}

\* the value of the last line that carries a value for label
LastValue(label) ==
    LET line == ExtractedLines[Max(ValueLines(label))]
    IN  trim(Sub(line, indexOf(line, <<":">>, 1) + 1, Len(line)))

\* an optional field is null without a value line, else the last value
FieldIsSetFrom(field, label) ==
    IF ValueLines(label) = {}
    THEN field = Null
    ELSE field = Str(LastValue(label))

\* C10: when the model call succeeds extractQueryComponents returns success
\* with each field set from its own lines: absent (null, and "find
\* restaurant" for intent) when no line carries a value for it, a value of
\* "none" in any letter case not counting; no field is ever "none".
C10_FieldsIndependentNeverNone ==
    (pc = "extracted" /\ textResult.success) =>
        /\ extraction.success
        /\ extraction.intent =
              IF ValueLines(KeyIntent) = {} THEN FindRestaurant
              ELSE LastValue(KeyIntent)
        /\ FieldIsSetFrom(extraction.locationQuery, KeyLocation)
        /\ FieldIsSetFrom(extraction.cuisine, KeyCuisine)
        /\ FieldIsSetFrom(extraction.preferences, KeyPreferences)
        /\ ~SameIgnoringCase(extraction.intent, NoneWord)
        /\ \A f \in {"locationQuery", "cuisine", "preferences"} :
              extraction[f] # Null =>
                  ~SameIgnoringCase(extraction[f].value, NoneWord)

\* C10 witness: the text said "Location: NONE" and gave a cuisine; the
\* location is absent and the cuisine is set
C10_Witness ==
    /\ pc = "extracted"
    /\ textResult.success
    /\ IsSubstring(<<"N", "O", "N", "E">>, textResult.text)
    /\ extraction.success
    /\ extraction.locationQuery = Null
    /\ extraction.cuisine # Null


\* what each stage of the parser yields on the raw response
GrammarStage == grammarRecords(rawResponse)

NumberedStage == numberedRecords(rawResponse, 1, prompt, location)

ParagraphStage == paragraphRecords(rawResponse, prompt, location)

SingleStage == <<singleRecord(rawResponse, prompt, location)>>

\* C19: the four stages are tried in the order grammar, numbered list,
\* paragraph split, single record; the parser returns the records of the
\* first stage that yields any, all of them and nothing else, so a later
\* stage contributes only when every earlier stage yielded none and the
\* returned sequence never mixes two stages.
C19_FirstProductiveStageOnly ==
    Parsed =>
        /\ GrammarStage # <<>> => recommendations = GrammarStage
        /\ (GrammarStage = <<>> /\ NumberedStage # <<>>) =>
              recommendations = NumberedStage
        /\ (GrammarStage = <<>> /\ NumberedStage = <<>>
                /\ ParagraphStage # <<>>) =>
              recommendations = ParagraphStage
        /\ (GrammarStage = <<>> /\ NumberedStage = <<>>
                /\ ParagraphStage = <<>>) =>
              recommendations = SingleStage

\* a text on which the numbered and the paragraph stage would both yield
\* records, parsed into the numbered records alone
C19_Witness ==
    /\ Parsed
    /\ GrammarStage = <<>>
    /\ NumberedStage # <<>>
    /\ ParagraphStage # <<>>
    /\ recommendations = NumberedStage
    /\ recommendations # ParagraphStage

\* the segments of the raw response that have a PLACE line, in order
PlaceSegments == SelectSeq(recBlocks(rawResponse), HasPlaceLine)

\* the lines of segment that begin with label
LabelLines(segment, label) ==
    LET ls == split(segment, <<NL>>)
    IN  {i \in 1..Len(ls) : StartsAtIgnoreCase(ls[i], label, 1)}

\* the trimmed value of the first line of segment that begins with label,
\* the empty string when there is no such line
AnchoredValue(segment, label) ==
    LET ls == split(segment, <<NL>>)
        first == ls[Min(LabelLines(segment, label))]
    IN  IF LabelLines(segment, label) = {}
        THEN <<>>
        ELSE trim(Sub(first, Len(label) + 1, Len(first)))

\* C20: in the grammar stage, location, description and additionalInfo of
\* the record of a segment are the trimmed value of the first line of the
\* segment that begins with LOCATION:, DESCRIPTION: and INFO:, the empty
\* string without such a line, and features is empty without a FEATURES:
\* line; a label inside another line or a label with an empty value never
\* brings in text of a different line.
C20_FieldsAreLineAnchored ==
    (Parsed /\ GrammarStage # <<>>) =>
        /\ Len(recommendations) = Len(PlaceSegments)
        /\ \A i \in 1..Len(PlaceSegments) :
              /\ recommendations[i].location =
                    AnchoredValue(PlaceSegments[i], LabelLocation)
              /\ recommendations[i].description =
                    AnchoredValue(PlaceSegments[i], LabelDescription)
              /\ recommendations[i].additionalInfo =
                    AnchoredValue(PlaceSegments[i], LabelInfo)
              /\ LabelLines(PlaceSegments[i], LabelFeatures) = {} =>
                    recommendations[i].features = <<>>

----------------------------------------------------------------------------
(* Properties of processUserQuery *)

Has(obj, key) == key \in DOMAIN obj

HasReturned(r) == at[r] = "returned"

\* the collaborator answers of invocation r, in the order of its awaits
GenerateTextAnswered(r) == Len(answers[r]) >= 1

SearchAnswered(r) == Len(answers[r]) >= 2

DetailsAnswered(r) == Len(answers[r]) >= 3

NearbyAnswered(r) == Len(answers[r]) >= 4

\* the candidates of a succeeded location search of invocation r
Candidates(r) ==
    IF SearchAnswered(r) /\ answers[r][2].success
    THEN answers[r][2].locations
    ELSE <<>>

SearchFailed(r) == SearchAnswered(r) /\ ~answers[r][2].success

\* the arguments of the calls invocation r made to the method fn
ArgsOf(r, fn) == {calls[r][i].arg : i \in {j \in DOMAIN calls[r] : calls[r][j].fn = fn}}

\* C11: processUserQuery and extractQueryComponents never throw: whatever
\* the collaborators answer (a result, a failure, malformed or missing
\* data), no exception leaves the call, an invocation that has not returned
\* is waiting for a collaborator, a returned object carries a boolean
\* success flag, and a failed model call in the extractor returns
\* success = false.
C11_NeverThrowsAlwaysFlagged ==
    \A r \in Invocations :
        /\ at[r] # "threw"
        /\ ~HasReturned(r) => results[r] = Undefined /\ AnswersAt(at[r]) # {}
        /\ HasReturned(r) =>
              Has(results[r], "success") /\ results[r].success \in BOOLEAN
        /\ (GenerateTextAnswered(r) /\ ~answers[r][1].success) =>
              HasReturned(r) /\ ~results[r].success

\* an invocation returned from the catch block while another one returned
\* the failure of the extractor's model call
C11_Witness ==
    \E r, q \in Invocations :
        /\ results[r] = processUserQueryCatch.result
        /\ GenerateTextAnswered(q) /\ ~answers[q][1].success
        /\ HasReturned(q) /\ ~results[q].success

\* C12: a location search that succeeds with more than one location makes
\* processUserQuery return success = true, needsLocationClarification =
\* true and possibleLocations = the full list of the search, without any
\* details lookup, nearby lookup or generation call.
C12_AmbiguousLocationAsksBack ==
    \A r \in Invocations :
        Len(Candidates(r)) > 1 =>
            /\ HasReturned(r)
            /\ Has(results[r], "needsLocationClarification")
            /\ Has(results[r], "possibleLocations")
            /\ results[r].success
            /\ results[r].needsLocationClarification
            /\ results[r].possibleLocations = Candidates(r)
            /\ \A i \in DOMAIN calls[r] :
                  calls[r][i].fn \in {"generateText", "searchLocation"}

C12_Witness ==
    \E r \in Invocations :
        /\ Len(Candidates(r)) = 2
        /\ Candidates(r)[1] # Candidates(r)[2]
        /\ HasReturned(r)

\* processUserQuery run on its own from the state st, resumed with the
\* answers anss one after the other
RECURSIVE runAlone(_, _)
runAlone(st, anss) ==
    IF anss = <<>>
    THEN st
    ELSE IF Head(anss) \notin AnswersAt(st.at)
    THEN [st EXCEPT !.at = "diverged"]
    ELSE LET out == resume(st.at, st.locals, Head(anss))
         IN  runAlone([out EXCEPT !.calls = st.calls \o out.calls], Tail(anss))

RunAlone(userLocation, anss) ==
    runAlone(Out(InitialLocals(userLocation), "extractQueryComponents",
                 Undefined, <<>>),
             anss)

\* every collaborator answer invocation r has received is a success
AllAnswersSucceeded(r) == \A i \in DOMAIN answers[r] : answers[r][i].success

\* the extractor of invocation r found no location and the caller gave none
NoLocationAtAll(r) ==
    /\ GenerateTextAnswered(r)
    /\ extractionOf(answers[r][1]).success
    /\ ~Truthy(extractionOf(answers[r][1]).locationQuery)
    /\ ~Truthy(locals[r].userLocation)

Flagged(r) ==
    /\ Has(results[r], "needsLocationClarification")
    /\ results[r].needsLocationClarification

\* C13: after a location search that succeeds with exactly one location,
\* processUserQuery returns no clarification result, the id it passes to
\* the details lookup is the id of that location, and the location text it
\* keeps for the summary is that location's address.
C13_UniqueLocationIdAndAddressUsed ==
    \A r \in Invocations :
        Len(Candidates(r)) = 1 =>
            /\ ~Flagged(r)
            /\ ArgsOf(r, "getRestaurantDetails") = {Candidates(r)[1].id}
            /\ locals[r].location = Candidates(r)[1].address

\* C14: an invocation with an unambiguous location whose collaborator
\* calls all succeeded, once it has returned, has returned a success result
\* with the reconciled recommendations and a natural-language response.
C14_AllSucceedingRunReturnsSuccess ==
    \A r \in Invocations :
        (HasReturned(r) /\ Len(Candidates(r)) = 1 /\ AllAnswersSucceeded(r)) =>
            /\ results[r].success
            /\ Has(results[r], "recommendations")
            /\ Has(results[r], "naturalResponse")

\* C15: a returned result has needsLocationClarification = true only when
\* the location search returned more than one candidate, and it is then a
\* success result carrying the candidates; a failed lookup and a request
\* without any location return a failure without the flag.
C15_FlagOnlyWhenAmbiguous ==
    \A r \in Invocations :
        HasReturned(r) =>
            /\ Flagged(r) =>
                  /\ Len(Candidates(r)) > 1
                  /\ results[r].success
                  /\ results[r].possibleLocations = Candidates(r)
            /\ (SearchFailed(r) \/ NoLocationAtAll(r)) =>
                  ~results[r].success /\ ~Flagged(r)

\* C15, amended: a returned result has the flag exactly when the search
\* returned more than one candidate, the search failed, or there is no
\* location at all; only the first is a success result and carries the
\* candidates, a failed search returns success = false with an empty
\* possibleLocations, and a request without any location returns
\* success = false without possibleLocations.
C15_FlagWhenAmbiguousOrLocationUnknown ==
    \A r \in Invocations :
        HasReturned(r) =>
            /\ Flagged(r) <=>
                  (Len(Candidates(r)) > 1 \/ SearchFailed(r) \/ NoLocationAtAll(r))
            /\ (Flagged(r) /\ results[r].success) <=> Len(Candidates(r)) > 1
            /\ Len(Candidates(r)) > 1 =>
                  results[r].possibleLocations = Candidates(r)
            /\ SearchFailed(r) =>
                  ~results[r].success /\ results[r].possibleLocations = <<>>
            /\ NoLocationAtAll(r) =>
                  ~results[r].success /\ ~Has(results[r], "possibleLocations")

\* one invocation returned after a failed search, the other without any
\* location, both flagged
C15_Witness ==
    \E r, q \in Invocations :
        /\ HasReturned(r) /\ SearchFailed(r) /\ Flagged(r)
        /\ HasReturned(q) /\ NoLocationAtAll(q) /\ Flagged(q)

\* C16: a failure result returned by processUserQuery carries no internal
\* error text (processUserQuery never reads NODE_ENV, so this is its
\* behaviour outside development mode as well as inside).
C16_NoInternalErrorText ==
    \A r \in Invocations :
        (HasReturned(r) /\ ~results[r].success) =>
            Get(results[r], "error") = Undefined

\* C18: invocations are independent: however two invocations of
\* processUserQuery interleave at their awaits, each makes the collaborator
\* calls, stands at the await and returns the result it would when run alone
\* with the same userLocation and the same collaborator answers.
C18_InvocationsIndependent ==
    \A r \in Invocations :
        LET alone == RunAlone(locals[r].userLocation, answers[r])
        IN  /\ at[r] = alone.at
            /\ results[r] = alone.result
            /\ calls[r] = alone.calls

\* both invocations went through all four awaits, with different search
\* queries and different answers of the nearby lookup
C18_Witness ==
    /\ \A r \in Invocations : HasReturned(r) /\ NearbyAnswered(r)
    /\ locals[1].searchQuery # locals[2].searchQuery
    /\ answers[1][4] # answers[2][4]

----------------------------------------------------------------------------
(* Properties of the recommendation endpoint *)

\* C17: a request to getRecommendations with a prompt and a locationId,
\* none of whose collaborator calls failed, is answered with a success
\* result that carries the location and at most 5 generated-from places.
C17_PromptAndLocationAnsweredWithSuccess ==
    (pc = "responded" /\ Truthy(request.prompt) /\ Truthy(request.locationId)) =>
        /\ response.status = 200
        /\ response.body.success
        /\ Has(response.body, "location")
        /\ Has(response.body, "recommendations")

----------------------------------------------------------------------------
(* Properties of the parser on answers in the example format *)

\* the segments of an answer that have a PLACE line, in text order
WithPlace(segs) == SelectSeq(segs, LAMBDA seg : seg.place)

\* C21: for an answer made of segments in the example format, the grammar
\* stage yields one record per segment with a PLACE line, in text order,
\* with the name before the stars, rating = the number of filled stars,
\* location and description = the line values and features = the
\* comma-separated items; segments without a PLACE line are skipped.
C21_ConformingSegmentsParsed ==
    Parsed =>
        \A answer \in ConformingAnswers :
            answer.text = rawResponse =>
                LET segs == WithPlace(answer.segments)
                IN  /\ Len(GrammarStage) = Len(segs)
                    /\ \A i \in 1..Len(segs) :
                          /\ GrammarStage[i].name = segs[i].name
                          /\ GrammarStage[i].rating = segs[i].stars
                          /\ GrammarStage[i].location = segs[i].location
                          /\ GrammarStage[i].description = segs[i].description
                          /\ GrammarStage[i].features = segs[i].features

\* the lines of the raw response
RawLines == split(rawResponse, <<NL>>)

\* where the number of a numbered item starts in line: after an optional
\* "Recommendation" label and its whitespace
NumberAt(line) ==
    IF StartsAt(line, RecommendationWord, 1)
    THEN RunEnd(line, Len(RecommendationWord) + 1, Whitespace)
    ELSE 1

\* what follows the number and its ':' or '.' in line, trimmed
ItemContent(line) ==
    trim(Sub(line, RunEnd(line, NumberAt(line), Digits) + 1, Len(line)))

\* line is a numbered item: label, number, ':' or '.', non-blank content
IsNumberedItem(line) ==
    LET d == RunEnd(line, NumberAt(line), Digits)
    IN  /\ d > NumberAt(line)
        /\ d <= Len(line)
        /\ line[d] \in {":", "."}
        /\ ItemContent(line) # <<>>

\* the numbered items of the raw response, in text order
NumberedItems == SelectSeq(RawLines, IsNumberedItem)

NoPlaceLine ==
    \A i \in 1..Len(RawLines) : ~StartsAtIgnoreCase(RawLines[i], LabelPlace, 1)

\* C22: a raw text without a PLACE line in which n >= 1 lines are numbered
\* items is parsed into exactly n records in text order, each with the
\* item's trimmed content as name, rating 4, the supplied location or
\* "Not specified", no features and a description that quotes the query.
C22_NumberedItemsParsed ==
    (Parsed /\ NoPlaceLine /\ Len(NumberedItems) >= 1) =>
        /\ Len(recommendations) = Len(NumberedItems)
        /\ \A i \in 1..Len(NumberedItems) :
              /\ recommendations[i].name = ItemContent(NumberedItems[i])
              /\ recommendations[i].rating = DefaultRating
              /\ recommendations[i].location =
                    (IF location = Null THEN NotSpecified ELSE location.value)
              /\ recommendations[i].features = <<>>
              /\ IsSubstring(prompt, recommendations[i].description)

----------------------------------------------------------------------------
(* Properties of generateText *)

\* C23: the request generateText posts carries the generation parameters
\* its caller supplied in options: max_new_tokens is options.maxTokens and
\* temperature is options.temperature.
C23_CallerOptionsAreSent ==
    (pc = "generated" /\ generation.options.maxTokens # Undefined) =>
        /\ generation.parameters.max_new_tokens
              = generation.options.maxTokens.value
        /\ generation.parameters.temperature
              = generation.options.temperature.value

----------------------------------------------------------------------------
(* Properties of the reconciler on records without a name *)

\* the indices of the AI records whose name is the empty string
Nameless == {i \in 1..Len(recommendations) : recommendations[i].name = <<>>}

\* C24: once the records are reconciled against a non-empty list of
\* places, every AI record whose name is the empty string has been merged
\* with the first place of the list (its id, rating source, address and
\* photo), so it is never emitted as unmatched
C24_EmptyNameTakesFirstPlace ==
    (Reconciled /\ Len(realRestaurants) > 0) =>
        \A i \in Nameless :
            /\ findMatchingRestaurant(recommendations[i], realRestaurants) = 1
            /\ enhanced[i] = mergedRecord(recommendations[i], realRestaurants[1])
            /\ enhanced[i].placeId = Str(realRestaurants[1].id)

\* C24 witness: a nameless record reconciled against two different places,
\* next to a named record that matched none of them
C24_Witness ==
    /\ Reconciled
    /\ Len(realRestaurants) = 2
    /\ realRestaurants[1].id # realRestaurants[2].id
    /\ Nameless # {}
    /\ \E i \in Nameless : enhanced[i].placeId = Str(realRestaurants[1].id)
    /\ \E j \in 1..Len(enhanced) : enhanced[j].placeId = Null

====
